---------------------------- MODULE Spec2Model ----------------------------
(***************************************************************************)
(* InterruptFilter (livekit-agents/livekit/agents/interrupt_filter.py):    *)
(* the decision engine that classifies a burst of user speech as IGNORE,   *)
(* INTERRUPT or PASS.  The model has the filter's fields, the              *)
(* threading.Timer threads started by on_vad_start, and one action per     *)
(* public method and per step of a timer thread.  Every method body runs   *)
(* under self._lock, so a method is one atomic action; a timer thread has  *)
(* two steps: its wait elapses (it is then committed to calling the        *)
(* handler and queues for the lock), and the handler body runs.            *)
(*                                                                         *)
(* A text is a sequence of one-character strings, so that lower(), strip() *)
(* and the tokenizing regular expression are computed, not assumed.        *)
(***************************************************************************)
EXTENDS Integers, Sequences, FiniteSets, TLC

\* ------------------------------------------------------------------ bounds

\* on_vad_start is called at most this many times (one Timer thread each).
MaxEpisodes == 2

\* ------------------------------------------------------------- characters

LowerAlpha ==
    << "a", "b", "c", "d", "e", "f", "g", "h", "i", "j", "k", "l", "m",
       "n", "o", "p", "q", "r", "s", "t", "u", "v", "w", "x", "y", "z" >>

UpperAlpha ==
    << "A", "B", "C", "D", "E", "F", "G", "H", "I", "J", "K", "L", "M",
       "N", "O", "P", "Q", "R", "S", "T", "U", "V", "W", "X", "Y", "Z" >>

Range(s) == { s[i] : i \in DOMAIN s }

\* The characters str.strip() removes from both ends.
Whitespace == { " ", "\t", "\n" }

\* The character class [a-zA-Z'] of the tokenizing regular expression.
TokenChars == Range(LowerAlpha) \cup Range(UpperAlpha) \cup { "'" }

\* str.lower() on one character.
LowerChar(c) ==
    IF \E i \in DOMAIN UpperAlpha : UpperAlpha[i] = c
    THEN LowerAlpha[CHOOSE i \in DOMAIN UpperAlpha : UpperAlpha[i] = c]
    ELSE c

\* str.lower()
Lower(text) == [ i \in DOMAIN text |-> LowerChar(text[i]) ]

RECURSIVE LStrip(_)
LStrip(text) ==
    IF text = << >> THEN text
    ELSE IF Head(text) \in Whitespace THEN LStrip(Tail(text))
    ELSE text

RECURSIVE RStrip(_)
RStrip(text) ==
    IF text = << >> THEN text
    ELSE IF text[Len(text)] \in Whitespace
         THEN RStrip(SubSeq(text, 1, Len(text) - 1))
    ELSE text

\* str.strip()
Strip(text) == RStrip(LStrip(text))

\* re.findall(r"[a-zA-Z']+", text): the maximal runs of token characters,
\* left to right.  cur is the run being read, acc the runs already closed.
RECURSIVE FindAllFrom(_, _, _)
FindAllFrom(text, cur, acc) ==
    IF text = << >>
    THEN IF cur = << >> THEN acc ELSE Append(acc, cur)
    ELSE IF Head(text) \in TokenChars
         THEN FindAllFrom(Tail(text), Append(cur, Head(text)), acc)
         ELSE FindAllFrom(Tail(text), << >>,
                          IF cur = << >> THEN acc ELSE Append(acc, cur))

FindAll(text) == FindAllFrom(text, << >>, << >>)

\* _norm_tokens
norm_tokens(text) ==
    IF text = << >> THEN << >> ELSE FindAll(Strip(Lower(text)))


\* ------------------------------------------------------------- word lists

w_yeah == << "y", "e", "a", "h" >>
w_ok == << "o", "k" >>
w_hmm == << "h", "m", "m" >>
w_right == << "r", "i", "g", "h", "t" >>
w_uh_h_huh == << "u", "h", "-", "h", "u", "h" >>
w_uh == << "u", "h" >>
w_mm == << "m", "m" >>
w_mm_h_hmm == << "m", "m", "-", "h", "m", "m" >>
w_uh_s_huh == << "u", "h", " ", "h", "u", "h" >>
w_okay == << "o", "k", "a", "y" >>
w_stop == << "s", "t", "o", "p" >>
w_wait == << "w", "a", "i", "t" >>
w_no == << "n", "o" >>
w_pause == << "p", "a", "u", "s", "e" >>
w_hold == << "h", "o", "l", "d" >>
w_start == << "s", "t", "a", "r", "t" >>
w_cancel == << "c", "a", "n", "c", "e", "l" >>
w_hey == << "h", "e", "y" >>
w_what == << "w", "h", "a", "t" >>
w_help == << "h", "e", "l", "p" >>
w_listen == << "l", "i", "s", "t", "e", "n" >>

\* _DEFAULT_IGNORE
DEFAULT_IGNORE ==
    << w_yeah, w_ok, w_hmm, w_right, w_uh_h_huh, w_uh, w_mm, w_mm_h_hmm,
       w_uh_s_huh, w_okay >>

\* _DEFAULT_COMMANDS
DEFAULT_COMMANDS ==
    << w_stop, w_wait, w_no, w_pause, w_hold, w_start, w_cancel, w_hey,
       w_what, w_help, w_listen >>

\* ----------------------------------------------------------------- inputs

\* Python's None passed where a text is expected.
NoneText == << "None" >>

\* The transcripts the callers deliver: those of the simulator's cases, and
\* texts with upper case, blanks, punctuation, digits and no letters.
Texts ==
    { << >>,
      << " " >>,
      << "4", "2" >>,
      << "y", "e" >>,
      w_yeah,
      << " ", "Y", "e", "a", "h", " " >>,
      w_okay,
      << "s", "t", "o" >>,
      w_stop,
      << "O", "K", ",", " ", "S", "T", "O", "P", "!" >>,
      w_no,
      << "n", "o", " ", "s", "t", "o", "p" >>,
      << "y", "e", "a", "h", " ", "w", "a", "i", "t", " ",
         "a", " ", "s", "e", "c", "o", "n", "d" >>,
      << "y", "e", "a", "h", " ", "h", "e", "l", "l", "o" >>,
      << "s", "t", "o", "p", "p", "i", "n", "g" >> }

\* text.strip() and _norm_tokens(buffer), tabulated once over the texts the
\* callers deliver and over the buffers those texts leave.
strip_table == [ t \in Texts \cup Range(DEFAULT_IGNORE) |-> Strip(t) ]

tokens_table ==
    [ b \in { Strip(t) : t \in Texts \cup Range(DEFAULT_IGNORE) } |->
        norm_tokens(b) ]

\* The constructor calls: the word-list arguments (<< >> stands for an
\* omitted or empty list, which `or` replaces by the default) and the
\* on_decision argument: None, a callback that returns, one that raises.
Constructions ==
    << [ ignore_words |-> << >>, command_words |-> << >>,
         on_decision |-> "returns" ],
       [ ignore_words |-> << >>, command_words |-> << >>,
         on_decision |-> "None" ],
       [ ignore_words |-> << << "O", "K" >>, << "Y", "e", "a", "h" >>, w_no >>,
         command_words |-> << << "S", "t", "o", "p" >>, << "N", "O" >> >>,
         on_decision |-> "raises" ],
       [ ignore_words |-> << >>, command_words |-> << >>,
         on_decision |-> "reenters" ] >>

\* ------------------------------------------------------------------ state

VARIABLES
    construction,    \* which constructor call made the filter
    is_speaking,     \* self.is_speaking
    vad_pending,     \* self._vad_pending
    stt_buffer,      \* self._stt_buffer
    timer,           \* self._timer: 0 is None, k the Timer of the k-th on_vad_start
    lock,            \* self._lock between operations: "free", or "held" by
                     \* an operation that never leaves its `with` block
    timers,          \* the Timer threads: "unborn", "armed", "expired", "finished"
    episode,         \* the number of on_vad_start calls so far
    resolved_by,     \* what ended the episode on_vad_start opened last
    discarded,       \* the live Timers of episodes that a later on_vad_start
                     \* found still pending
    emitted,         \* on_decision invocations since the last on_vad_start:
                     \* 0, 1, or 2 for two or more
    start_speaking,  \* is_speaking when the last on_vad_start ran
    ran_timer,       \* the Timer whose handler the last step ran, else 0
    returned,        \* what the last operation returned
    callbacks        \* the on_decision invocations it made, in order

fields == << is_speaking, vad_pending, stt_buffer, timer >>

vars ==
    << construction, is_speaking, vad_pending, stt_buffer, timer, lock,
       timers, episode, resolved_by, discarded, emitted, start_speaking,
       ran_timer,
       returned, callbacks >>

Episodes == 1 .. MaxEpisodes

\* set(w.lower() for w in (words or default))
word_set(words, default) ==
    { Lower(w) : w \in Range(IF words = << >> THEN default ELSE words) }

\* What __init__ stores, per constructor call; none of the three fields is
\* assigned anywhere else.
IgnoreWordsOf ==
    [ c \in DOMAIN Constructions |->
        word_set(Constructions[c].ignore_words, DEFAULT_IGNORE) ]

CommandWordsOf ==
    [ c \in DOMAIN Constructions |->
        word_set(Constructions[c].command_words, DEFAULT_COMMANDS) ]

\* self.ignore_words
ignore_words == IgnoreWordsOf[construction]

\* self.command_words
command_words == CommandWordsOf[construction]

\* self.on_decision: "None", or a callable that "returns", that "raises", or
\* that "reenters" (calls an operation of the filter it was given to)
on_decision == Constructions[construction].on_decision

\* InterruptFilter.__init__
Constructed ==
    /\ construction \in DOMAIN Constructions
    /\ lock = "free"
    /\ is_speaking = FALSE
    /\ vad_pending = FALSE
    /\ stt_buffer = << >>
    /\ timer = 0
    /\ timers = [ k \in Episodes |-> "unborn" ]
    /\ episode = 0
    /\ resolved_by = "none"
    /\ discarded = { }
    /\ emitted = 0
    /\ start_speaking = FALSE
    /\ ran_timer = 0
    /\ returned = "None"
    /\ callbacks = << >>

\* The filter with a callback that does not call back into the filter, or
\* with none.
Init == Constructed /\ on_decision # "reenters"

\* ------------------------------------------------------------ classification

\* `for t in tokens: if t in self.command_words`: whether the loop returns,
\* and the token it returns on (the first command word).
has_command(tokens) == \E i \in DOMAIN tokens : tokens[i] \in command_words

first_command(tokens) ==
    tokens[CHOOSE i \in DOMAIN tokens :
              /\ tokens[i] \in command_words
              /\ \A j \in 1 .. (i - 1) : tokens[j] \notin command_words]

\* all((t in self.ignore_words) for t in tokens)
all_ignore(tokens) == \A i \in DOMAIN tokens : tokens[i] \in ignore_words

\* Mutant: the decision uses the flag as on_vad_start found it.
speaking_latched == start_speaking

\* The value of self.is_speaking that a resolution reads.
speaking_read == is_speaking

\* Mutant: silent mode passes before the command words are looked at.
stt_final_decision_silent_first(tokens, speaking) ==
    IF tokens = << >>
    THEN [ decision |-> IF speaking THEN "IGNORE" ELSE "PASS",
           reason |-> << "empty_transcription" >> ]
    ELSE IF ~speaking
    THEN [ decision |-> "PASS", reason |-> << "silent_mode_pass" >> ]
    ELSE IF has_command(tokens)
    THEN [ decision |-> "INTERRUPT",
           reason |-> << "command_word", first_command(tokens) >> ]
    ELSE [ decision |-> IF all_ignore(tokens) THEN "IGNORE" ELSE "INTERRUPT",
           reason |-> IF all_ignore(tokens) THEN << "all_ignore" >>
                      ELSE << "contains_non_ignore" >> ]

\* Mutant: unclear text interrupts in silent mode too.
stt_final_decision_silent_interrupt(tokens, speaking) ==
    IF tokens = << >>
    THEN [ decision |-> IF speaking THEN "IGNORE" ELSE "PASS",
           reason |-> << "empty_transcription" >> ]
    ELSE IF has_command(tokens)
    THEN [ decision |-> "INTERRUPT",
           reason |-> << "command_word", first_command(tokens) >> ]
    ELSE IF all_ignore(tokens)
    THEN [ decision |-> IF speaking THEN "IGNORE" ELSE "PASS",
           reason |-> IF speaking THEN << "all_ignore" >>
                      ELSE << "silent_mode_pass" >> ]
    ELSE [ decision |-> "INTERRUPT", reason |-> << "contains_non_ignore" >> ]

\* Mutant: any() where the code has all().
stt_final_decision_any_ignore(tokens, speaking) ==
    IF tokens = << >>
    THEN [ decision |-> IF speaking THEN "IGNORE" ELSE "PASS",
           reason |-> << "empty_transcription" >> ]
    ELSE IF has_command(tokens)
    THEN [ decision |-> "INTERRUPT",
           reason |-> << "command_word", first_command(tokens) >> ]
    ELSE IF speaking
    THEN LET any_ignore == \E i \in DOMAIN tokens : tokens[i] \in ignore_words
         IN  [ decision |-> IF any_ignore THEN "IGNORE" ELSE "INTERRUPT",
               reason |-> IF any_ignore THEN << "all_ignore" >>
                          ELSE << "contains_non_ignore" >> ]
    ELSE [ decision |-> "PASS", reason |-> << "silent_mode_pass" >> ]

\* on_stt_final, from `if not tokens` to the end: the decision and reason.
stt_final_decision(tokens, speaking) ==
    IF tokens = << >>
    THEN [ decision |-> IF speaking THEN "IGNORE" ELSE "PASS",
           reason |-> << "empty_transcription" >> ]
    ELSE IF has_command(tokens)
    THEN [ decision |-> "INTERRUPT",
           reason |-> << "command_word", first_command(tokens) >> ]
    ELSE IF speaking
    THEN [ decision |-> IF all_ignore(tokens) THEN "IGNORE" ELSE "INTERRUPT",
           reason |-> IF all_ignore(tokens) THEN << "all_ignore" >>
                      ELSE << "contains_non_ignore" >> ]
    ELSE [ decision |-> "PASS", reason |-> << "silent_mode_pass" >> ]

\* Mutant: an empty partial is ignored whether or not the agent speaks.
vad_timeout_decision_empty_ignore(tokens, speaking) ==
    IF tokens = << >>
    THEN [ decision |-> "IGNORE", reason |-> << "timeout_empty_partial" >> ]
    ELSE IF has_command(tokens)
    THEN [ decision |-> "INTERRUPT",
           reason |-> << "partial_command", first_command(tokens) >> ]
    ELSE IF speaking
    THEN [ decision |-> IF all_ignore(tokens) THEN "IGNORE" ELSE "INTERRUPT",
           reason |-> IF all_ignore(tokens) THEN << "timeout_all_ignore" >>
                      ELSE << "timeout_contains_non_ignore" >> ]
    ELSE [ decision |-> "PASS", reason |-> << "timeout_silent_pass" >> ]

\* Mutant: the timeout path lacks the scan for command words.
vad_timeout_decision_no_scan(tokens, speaking) ==
    IF tokens = << >>
    THEN [ decision |-> IF speaking THEN "IGNORE" ELSE "PASS",
           reason |-> << "timeout_empty_partial" >> ]
    ELSE IF speaking
    THEN [ decision |-> IF all_ignore(tokens) THEN "IGNORE" ELSE "INTERRUPT",
           reason |-> IF all_ignore(tokens) THEN << "timeout_all_ignore" >>
                      ELSE << "timeout_contains_non_ignore" >> ]
    ELSE [ decision |-> "PASS", reason |-> << "timeout_silent_pass" >> ]

\* _on_vad_timeout_internal, from `if not tokens` to the end.
vad_timeout_decision(tokens, speaking) ==
    IF tokens = << >>
    THEN [ decision |-> IF speaking THEN "IGNORE" ELSE "PASS",
           reason |-> << "timeout_empty_partial" >> ]
    ELSE IF has_command(tokens)
    THEN [ decision |-> "INTERRUPT",
           reason |-> << "partial_command", first_command(tokens) >> ]
    ELSE IF speaking
    THEN [ decision |-> IF all_ignore(tokens) THEN "IGNORE" ELSE "INTERRUPT",
           reason |-> IF all_ignore(tokens) THEN << "timeout_all_ignore" >>
                      ELSE << "timeout_contains_non_ignore" >> ]
    ELSE [ decision |-> "PASS", reason |-> << "timeout_silent_pass" >> ]

\* Mutant: the callback is made only for an episode that was still pending.
maybe_callback_only_pending(decision, reason, stt_text) ==
    IF on_decision = "None" \/ ~vad_pending THEN << >>
    ELSE << [ decision |-> decision, reason |-> reason,
              stt_text |-> stt_text, pending |-> vad_pending' ] >>

\* _maybe_callback: the on_decision invocations it makes.  An exception of
\* the callback is caught and dropped, so a raising callback was still
\* invoked.  Every call of _maybe_callback comes after the assignment
\* self._vad_pending = False, so the callback runs with the new value of the
\* flag, recorded as `pending`.
maybe_callback(decision, reason, stt_text) ==
    IF on_decision = "None" THEN << >>
    ELSE << [ decision |-> decision, reason |-> reason,
              stt_text |-> stt_text, pending |-> vad_pending' ] >>

\* Mutant: _maybe_callback without its try/except.
callback_exception_uncaught == on_decision = "raises"

\* `except Exception: pass`: whether an exception of on_decision leaves
\* _maybe_callback.
callback_exception_escapes == FALSE

\* Mutant: on_decision is called after the `with self._lock` block is left.
callback_after_release == FALSE

\* on_stt_final and _on_vad_timeout_internal call _maybe_callback inside
\* their `with self._lock` block.
callback_under_lock == TRUE

\* self._lock when the operation that made the invocations cbs is over.
\* threading.Lock is not reentrant: an on_decision that calls an operation
\* of the filter while the lock is held waits for the lock of its own
\* thread, so the operation never leaves its `with` block.
lock_after(cbs) ==
    IF callback_under_lock /\ cbs # << >> /\ on_decision = "reenters"
    THEN "held"
    ELSE "free"

\* ---------------------------------------------------------------- actions

\* The Timers that may still call the handler.
Live(ts) == { k \in Episodes : ts[k] \in { "armed", "expired" } }

\* The count of invocations, kept as 0, 1, many.
Count(n) == IF n >= 2 THEN 2 ELSE n

\* _cancel_timer: Timer.cancel() sets the finished flag, which stops a timer
\* that is still waiting; one whose wait has elapsed has already tested the
\* flag and calls the handler all the same.
timers_after_cancel ==
    IF timer # 0 /\ timers[timer] = "armed"
    THEN [ timers EXCEPT ![timer] = "finished" ]
    ELSE timers

\* set_speaking
set_speaking(speaking) ==
    /\ lock = "free"
    /\ is_speaking' = speaking
    /\ ran_timer' = 0
    /\ returned' = "None"
    /\ callbacks' = << >>
    /\ UNCHANGED << construction, lock, vad_pending, stt_buffer, timer, timers,
                    episode, resolved_by, discarded, emitted,
                    start_speaking >>

\* on_vad_start
on_vad_start ==
    /\ lock = "free"
    /\ episode < MaxEpisodes
    /\ vad_pending' = TRUE
    /\ stt_buffer' = << >>
    /\ timers' = [ timers_after_cancel EXCEPT ![episode + 1] = "armed" ]
    /\ timer' = episode + 1
    /\ episode' = episode + 1
    /\ resolved_by' = "pending"
    /\ discarded' = (discarded \cup (IF vad_pending THEN { episode } ELSE { }))
                       \cap Live(timers_after_cancel)
    /\ emitted' = 0
    /\ start_speaking' = is_speaking
    /\ ran_timer' = 0
    /\ returned' = "None"
    /\ callbacks' = << >>
    /\ UNCHANGED << construction, lock, is_speaking >>

\* Mutant: a partial is stored only while the buffer is empty (first write
\* wins).
on_stt_partial_first_wins(text) ==
    /\ lock = "free"
    /\ IF text = NoneText \/ stt_buffer # << >>
       THEN UNCHANGED stt_buffer
       ELSE stt_buffer' = strip_table[text]
    /\ ran_timer' = 0
    /\ returned' = "None"
    /\ callbacks' = << >>
    /\ UNCHANGED << construction, lock, is_speaking, vad_pending, timer, timers,
                    episode, resolved_by, discarded, emitted,
                    start_speaking >>

\* on_stt_partial
on_stt_partial(text) ==
    /\ lock = "free"
    /\ IF text = NoneText
       THEN UNCHANGED stt_buffer
       ELSE stt_buffer' = strip_table[text]
    /\ ran_timer' = 0
    /\ returned' = "None"
    /\ callbacks' = << >>
    /\ UNCHANGED << construction, lock, is_speaking, vad_pending, timer, timers,
                    episode, resolved_by, discarded, emitted,
                    start_speaking >>

\* on_stt_final
on_stt_final(arg) ==
    LET text == IF arg = NoneText THEN << >> ELSE arg
        tokens == tokens_table[strip_table[text]]
        d == stt_final_decision(tokens, speaking_read)
    IN  /\ lock = "free"
        /\ timers' = timers_after_cancel
        /\ timer' = 0
        /\ vad_pending' = FALSE
        /\ stt_buffer' = strip_table[text]
        /\ callbacks' = maybe_callback(d.decision, d.reason, text)
        /\ lock' = lock_after(callbacks')
        /\ returned' = IF lock' = "held" THEN "None"
                       ELSE IF callback_exception_escapes THEN "Exception"
                       ELSE d.decision
        /\ emitted' = Count(emitted + Len(callbacks'))
        /\ resolved_by' = IF vad_pending THEN "final" ELSE resolved_by
        /\ discarded' = discarded \cap Live(timers')
        /\ ran_timer' = 0
        /\ UNCHANGED << construction, is_speaking, episode, start_speaking >>

\* threading.Timer.run of the Timer started by the k-th on_vad_start: the
\* wait elapses with the timer not cancelled, so the thread calls
\* _on_vad_timeout_internal and queues for self._lock.
timer_expires(k) ==
    /\ timers[k] = "armed"
    /\ timers' = [ timers EXCEPT ![k] = "expired" ]
    /\ ran_timer' = 0
    /\ returned' = "None"
    /\ callbacks' = << >>
    /\ UNCHANGED << construction, lock, fields, episode, resolved_by, discarded,
                    emitted, start_speaking >>

\* Mutant: the handler does not look at the pending flag.
timeout_never_returns_early == FALSE

\* Mutant: the handler returns without resolving, whatever the flag.
timeout_always_returns_early == TRUE

\* `if not self._vad_pending: return`
timeout_returns_early == ~vad_pending

\* _on_vad_timeout_internal, run by the Timer of the k-th on_vad_start.
on_vad_timeout_internal(k) ==
    LET tokens == tokens_table[stt_buffer]
        d == vad_timeout_decision(tokens, speaking_read)
    IN  /\ lock = "free"
        /\ timers[k] = "expired"
        /\ timers' = [ timers EXCEPT ![k] = "finished" ]
        /\ timer' = 0
        /\ ran_timer' = k
        /\ returned' = "None"
        /\ IF timeout_returns_early
           THEN /\ callbacks' = << >>
                /\ UNCHANGED << vad_pending, resolved_by, emitted, lock >>
           ELSE /\ vad_pending' = FALSE
                /\ callbacks' = maybe_callback(d.decision, d.reason, stt_buffer)
                /\ lock' = lock_after(callbacks')
                /\ emitted' = Count(emitted + Len(callbacks'))
                /\ resolved_by' = "timeout"
        /\ discarded' = discarded
        /\ UNCHANGED << construction, is_speaking, stt_buffer, episode,
                        start_speaking >>

\* Mutant: on_vad_cancel leaves the buffered text in place.
on_vad_cancel_keeps_buffer ==
    /\ lock = "free"
    /\ timers' = timers_after_cancel
    /\ timer' = 0
    /\ vad_pending' = FALSE
    /\ resolved_by' = IF vad_pending THEN "cancelled" ELSE resolved_by
    /\ discarded' = discarded \cap Live(timers')
    /\ ran_timer' = 0
    /\ returned' = "None"
    /\ callbacks' = << >>
    /\ UNCHANGED << construction, lock, is_speaking, stt_buffer, episode, emitted,
                    start_speaking >>

\* Mutant: on_vad_cancel only cancels the Timer and clears the buffer.
on_vad_cancel_keeps_pending ==
    /\ lock = "free"
    /\ timers' = timers_after_cancel
    /\ timer' = 0
    /\ stt_buffer' = << >>
    /\ discarded' = discarded \cap Live(timers')
    /\ ran_timer' = 0
    /\ returned' = "None"
    /\ callbacks' = << >>
    /\ UNCHANGED << construction, lock, is_speaking, vad_pending, resolved_by,
                    episode, emitted, start_speaking >>

\* on_vad_cancel
on_vad_cancel ==
    /\ lock = "free"
    /\ timers' = timers_after_cancel
    /\ timer' = 0
    /\ vad_pending' = FALSE
    /\ stt_buffer' = << >>
    /\ resolved_by' = IF vad_pending THEN "cancelled" ELSE resolved_by
    /\ discarded' = discarded \cap Live(timers')
    /\ ran_timer' = 0
    /\ returned' = "None"
    /\ callbacks' = << >>
    /\ UNCHANGED << construction, lock, is_speaking, episode, emitted,
                    start_speaking >>

Next ==
    \/ \E speaking \in BOOLEAN : set_speaking(speaking)
    \/ on_vad_start
    \/ \E text \in Texts \cup { NoneText } : on_stt_partial(text)
    \/ \E text \in Texts \cup { NoneText } : on_stt_final(text)
    \/ \E k \in Episodes : timer_expires(k)
    \/ \E k \in Episodes : on_vad_timeout_internal(k)
    \/ on_vad_cancel

Spec == Init /\ [][Next]_vars

\* The filter built with the default word lists and a callback, its callers
\* delivering the entries of the default ignore list as transcripts.
InitDefaults == Init /\ construction = 1

NextDefaults ==
    \/ \E speaking \in BOOLEAN : set_speaking(speaking)
    \/ on_vad_start
    \/ \E text \in Range(DEFAULT_IGNORE) : on_stt_partial(text)
    \/ \E text \in Range(DEFAULT_IGNORE) : on_stt_final(text)
    \/ \E k \in Episodes : timer_expires(k)
    \/ \E k \in Episodes : on_vad_timeout_internal(k)
    \/ on_vad_cancel

SpecDefaults == InitDefaults /\ [][NextDefaults]_vars

\* The filter with the default word lists and a callback that returns or
\* one that calls back into the filter.
InitReentrant == Constructed /\ on_decision \in { "returns", "reenters" }

SpecReentrant == InitReentrant /\ [][Next]_vars

\* Fair scheduling of the Timer threads: a Timer that stays armed sees its
\* wait elapse, and a Timer thread queued on self._lock gets the lock.
FairSpec ==
    /\ Spec
    /\ \A k \in Episodes :
          WF_vars(timer_expires(k)) /\ WF_vars(on_vad_timeout_internal(k))

\* ------------------------------------------------------------- type check

Decisions == { "IGNORE", "INTERRUPT", "PASS" }

TypeOK ==
    /\ is_speaking \in BOOLEAN
    /\ vad_pending \in BOOLEAN
    /\ timer \in 0 .. MaxEpisodes
    /\ lock \in { "free", "held" }
    /\ episode \in 0 .. MaxEpisodes
    /\ \A k \in Episodes :
          timers[k] \in { "unborn", "armed", "expired", "finished" }
    /\ returned \in Decisions \cup { "None" }
    /\ Len(callbacks) <= 1
    /\ vad_pending <=> resolved_by = "pending"

\* ----------------------------------------------------------------- claims

\* The decisions the last step made known: the value on_stt_final returned
\* and the decision of each on_decision invocation.
Observed ==
    (IF returned = "None" THEN { } ELSE { returned })
        \cup { callbacks[i].decision : i \in DOMAIN callbacks }

\* A resolution leaves the text it classified in the buffer: on_stt_final
\* stores it there first, the handler classifies the buffer and keeps it.
Tokens == norm_tokens(stt_buffer)

ContainsCommand(tokens) ==
    \E i \in DOMAIN tokens : tokens[i] \in CommandWordsOf[construction]

OnlyFillers(tokens) ==
    \A i \in DOMAIN tokens : tokens[i] \in IgnoreWordsOf[construction]

\* The decision the classification rules give for a token list.
Expected(tokens, speaking) ==
    IF ContainsCommand(tokens) THEN "INTERRUPT"
    ELSE IF ~speaking THEN "PASS"
    ELSE IF OnlyFillers(tokens) THEN "IGNORE"
    ELSE "INTERRUPT"

\* The last step was the handler of a Timer and it invoked on_decision.
TimeoutEmitted == ran_timer # 0 /\ callbacks # << >>

\* The last step was on_stt_final.
FinalReturned == returned # "None"

\* C1: an episode resolves exactly once: after an on_vad_start, at most one
\* decision is emitted through on_decision until the next on_vad_start,
\* whatever the order of on_stt_final calls and timeout firings.
C1_AtMostOneDecisionPerEpisode == episode >= 1 => emitted <= 1

\* C2: a stale timeout never fires into a newer episode: the handler of a
\* Timer armed by an earlier on_vad_start neither emits a decision for nor
\* clears pending of the episode a later on_vad_start opened.
C2_NoStaleResolution ==
    [][ \A k \in Episodes :
          (on_vad_timeout_internal(k) /\ k < episode)
              => (callbacks' = << >> /\ vad_pending' = vad_pending) ]_vars

\* C3: once on_stt_final has resolved or on_vad_cancel has cancelled the
\* episode and no on_vad_start came since, the firing of that episode's
\* timeout is a no-op: no callback, and speaking, pending and buffer stay.
C3_TimeoutAfterResolutionIsNoop ==
    [][ \A k \in Episodes :
          (on_vad_timeout_internal(k) /\ k = episode
             /\ resolved_by \in { "final", "cancelled" })
              => (callbacks' = << >>
                    /\ UNCHANGED << is_speaking, vad_pending, stt_buffer >>) ]_vars

\* C3, witnessed: the Timer of the current episode had elapsed when
\* on_stt_final resolved the episode, and its handler has now run silently.
C3_Witness ==
    /\ ran_timer = episode /\ episode >= 1
    /\ resolved_by = "final"
    /\ on_decision = "returns"
    /\ callbacks = << >>

\* C4: command priority: a token list with at least one command word is
\* decided INTERRUPT, whatever the other tokens are and whether or not the
\* agent speaks, by on_stt_final and by the timeout alike.
C4_CommandPriority ==
    ContainsCommand(Tokens) => \A d \in Observed : d = "INTERRUPT"

\* C4, witnessed: a timeout in silent mode on a text that mixes a filler
\* with a command word.
C4_Witness ==
    /\ TimeoutEmitted
    /\ ~is_speaking
    /\ ContainsCommand(Tokens)
    /\ \E i \in DOMAIN Tokens :
          /\ Tokens[i] \in IgnoreWordsOf[construction]
          /\ Tokens[i] \notin CommandWordsOf[construction]
    /\ callbacks[1].decision = "INTERRUPT"

\* C5 as claimed: whenever speaking is false at resolution time the decision
\* is PASS, for every text, on both paths.
C5_SilentAlwaysPass == ~is_speaking => \A d \in Observed : d = "PASS"

\* C5 as amended: whenever speaking is false at resolution time the decision
\* is PASS for every text without a command word and INTERRUPT for every
\* text with one, on both paths.
C5_SilentPassUnlessCommand ==
    ~is_speaking =>
        \A d \in Observed :
            d = IF ContainsCommand(Tokens) THEN "INTERRUPT" ELSE "PASS"

\* C5, witnessed: on_stt_final in silent mode on a text with a token that is
\* neither a filler nor a command word.
C5_Witness ==
    /\ FinalReturned
    /\ callbacks # << >>
    /\ ~is_speaking
    /\ ~ContainsCommand(Tokens)
    /\ ~OnlyFillers(Tokens)
    /\ returned = "PASS"

\* C6: every decision is IGNORE, INTERRUPT or PASS; PASS is emitted only
\* with speaking false and IGNORE only with speaking true at resolution
\* time; with speaking false and no command word among the tokens (none at
\* all included) the decision is PASS; on both paths, after any operations.
C6_DecisionRange ==
    \A d \in Observed :
        /\ d \in Decisions
        /\ d = "PASS" => ~is_speaking
        /\ d = "IGNORE" => is_speaking
        /\ (~is_speaking /\ ~ContainsCommand(Tokens)) => d = "PASS"

\* C6, witnessed: a timeout in silent mode on a buffer that holds text but
\* no token.
C6_Witness ==
    /\ TimeoutEmitted
    /\ ~is_speaking
    /\ stt_buffer # << >>
    /\ Tokens = << >>
    /\ callbacks[1].decision = "PASS"

\* C7: with speaking true at resolution time and no command word among the
\* tokens, the decision is IGNORE when there is no token or every token is
\* an ignore word, and INTERRUPT when some token is not an ignore word.
C7_SpeakingClassification ==
    (is_speaking /\ ~ContainsCommand(Tokens)) =>
        \A d \in Observed :
            d = IF OnlyFillers(Tokens) THEN "IGNORE" ELSE "INTERRUPT"

\* C7, witnessed: on_stt_final while speaking on a filler followed by an
\* unclear word.
C7_Witness ==
    /\ FinalReturned
    /\ callbacks # << >>
    /\ is_speaking
    /\ ~ContainsCommand(Tokens)
    /\ \E i \in DOMAIN Tokens : Tokens[i] \in IgnoreWordsOf[construction]
    /\ ~OnlyFillers(Tokens)
    /\ returned = "INTERRUPT"

\* C8: the two paths agree: the decision a timeout emits for a pending
\* episode's buffer is the decision on_stt_final returns for that text
\* under the same value of speaking.
C8_PathsAgree ==
    TimeoutEmitted =>
        callbacks[1].decision =
            stt_final_decision(norm_tokens(Strip(callbacks[1].stt_text)),
                               is_speaking).decision

\* C8, witnessed: a timeout while speaking on a buffer of fillers only.
C8_Witness ==
    /\ TimeoutEmitted
    /\ is_speaking
    /\ Tokens # << >>
    /\ OnlyFillers(Tokens)
    /\ ~ContainsCommand(Tokens)
    /\ callbacks[1].decision = "IGNORE"

\* C9: speaking is read at resolution time: the decision of either path is
\* the one the rules give for the value set_speaking set last before the
\* resolution (which the resolution leaves in is_speaking), not for the
\* value on_vad_start found.
C9_SpeakingReadAtResolution ==
    \A d \in Observed : d = Expected(Tokens, is_speaking)

\* C9, witnessed: the agent spoke at on_vad_start, set_speaking(False) came
\* before the timeout, and the timeout passes a text that speaking mode
\* would not have passed.
C9_Witness ==
    /\ TimeoutEmitted
    /\ ran_timer = episode
    /\ start_speaking /\ ~is_speaking
    /\ callbacks[1].decision = "PASS"
    /\ Expected(Tokens, start_speaking) # "PASS"

\* C10: on_vad_start on a pending episode discards it silently:
\* on_vad_start invokes no callback, clears the buffer and leaves pending
\* true, and the Timer of the discarded episode produces no callback.
C10_SilentDiscard ==
    [][ /\ on_vad_start =>
              (callbacks' = << >> /\ stt_buffer' = << >> /\ vad_pending')
        /\ \A k \in Episodes :
              (on_vad_timeout_internal(k) /\ k \in discarded)
                  => callbacks' = << >> ]_vars

\* C11: on_vad_cancel emits no decision, leaves pending false and the buffer
\* empty and does not touch speaking; from then until the next on_vad_start
\* pending stays false and no Timer's handler emits a decision, whenever the
\* handler gets the lock.
C11_CancelIsSilent ==
    [][ /\ on_vad_cancel =>
              /\ callbacks' = << >> /\ returned' = "None"
              /\ ~vad_pending'
              /\ stt_buffer' = << >>
              /\ is_speaking' = is_speaking
        /\ (~vad_pending /\ episode' = episode) => ~vad_pending'
        /\ \A k \in Episodes :
              (on_vad_timeout_internal(k) /\ ~vad_pending)
                  => (callbacks' = << >> /\ emitted' = emitted) ]_vars

\* C11, witnessed: on_vad_cancel found the episode pending with its Timer
\* already past its wait, and the handler has now run without a callback.
C11_Witness ==
    /\ ran_timer = episode /\ episode >= 1
    /\ resolved_by = "cancelled"
    /\ on_decision # "None"
    /\ callbacks = << >>
    /\ emitted = 0

\* C12: on_stt_partial with absent or empty text is a no-op: for None and
\* for the empty string the buffer, the pending flag, the Timer and the
\* speaking flag stay as they are.
C12_EmptyPartialIsNoop ==
    [][ \A text \in { NoneText, << >> } :
          on_stt_partial(text)
              => UNCHANGED << stt_buffer, vad_pending, timer, timers,
                              is_speaking >> ]_vars

\* The last step was on_stt_final and it invoked on_decision.
FinalEmitted == ran_timer = 0 /\ callbacks # << >>

\* C13: a raising on_decision is isolated: on_stt_final still returns its
\* decision (the one it passed to the callback), the handler completes, and
\* either leaves pending false and the Timer handle cleared; on both paths
\* the pending flag is already cleared when the callback is invoked.
C13_CallbackFailureIsolated ==
    /\ (on_decision = "raises" /\ FinalEmitted) =>
          /\ returned \in Decisions
          /\ returned = callbacks[1].decision
    /\ (on_decision = "raises" /\ callbacks # << >>) =>
          (~vad_pending /\ timer = 0)
    /\ \A i \in DOMAIN callbacks : ~callbacks[i].pending

\* C13, witnessed: on_stt_final on a pending episode with a callback that
\* raises.
C13_Witness ==
    /\ on_decision = "raises"
    /\ FinalEmitted
    /\ resolved_by = "final"
    /\ returned = "INTERRUPT"

\* C14: on_stt_final is total and synchronous: in every state and for every
\* text, None included, it can run, returns the decision the rules give for
\* that text and the current speaking flag, invokes an installed on_decision
\* exactly once with the decision it returns, and leaves pending false.
C14_FinalIsTotal ==
    /\ \A arg \in Texts \cup { NoneText } : ENABLED on_stt_final(arg)
    /\ returned # "None" =>
          /\ returned = Expected(Tokens, is_speaking)
          /\ on_decision # "None" =>
                /\ Len(callbacks) = 1
                /\ callbacks[1].decision = returned
          /\ ~vad_pending

\* C14, witnessed: on_stt_final called after the timeout had resolved the
\* episode: it classifies and calls back once more.
C14_Witness ==
    /\ FinalEmitted
    /\ resolved_by = "timeout"
    /\ Len(callbacks) = 1
    /\ returned = callbacks[1].decision
    /\ ~vad_pending

\* C15: with the default word lists and speaking true, every entry of the
\* default ignore list is a filler: on_stt_final of the entry returns
\* IGNORE, and a timeout on a buffer holding the entry emits IGNORE.
C15_DefaultFillersIgnored ==
    (construction = 1 /\ is_speaking /\ stt_buffer \in Range(DEFAULT_IGNORE))
        => \A d \in Observed : d = "IGNORE"

\* C16 as claimed: right after on_stt_final returns and right after a
\* timeout that emitted a decision, pending is false and the buffer is the
\* empty string.
C16_StateClearedOnResolution ==
    (returned # "None" \/ TimeoutEmitted) =>
        (~vad_pending /\ stt_buffer = << >>)

\* C16 as amended: right after on_stt_final returns, after a timeout that
\* emitted a decision and after on_vad_cancel returns, pending is false; the
\* buffer is empty after on_vad_cancel, holds the trimmed final text after
\* on_stt_final and is left as it was by the timeout; on_vad_start clears
\* it.  (Only on_stt_final returns a decision and only the handler records
\* the Timer it ran for, which is what the two outer tests select.)
C16_PendingClearedBufferKept ==
    [][ /\ returned' # "None" =>
              \A arg \in Texts \cup { NoneText } :
                  on_stt_final(arg) =>
                      /\ ~vad_pending'
                      /\ stt_buffer' =
                             Strip(IF arg = NoneText THEN << >> ELSE arg)
        /\ ran_timer' # 0 =>
              \A k \in Episodes :
                  on_vad_timeout_internal(k) =>
                      /\ callbacks' # << >> => ~vad_pending'
                      /\ stt_buffer' = stt_buffer
        /\ on_vad_cancel => (~vad_pending' /\ stt_buffer' = << >>)
        /\ on_vad_start => stt_buffer' = << >> ]_vars

\* C16, witnessed: a timeout has resolved the episode and the partial it
\* classified is still in the buffer.
C16_Witness ==
    /\ TimeoutEmitted
    /\ ~vad_pending
    /\ stt_buffer # << >>
    /\ callbacks[1].stt_text = stt_buffer

\* The handler of a Timer has just resolved the episode: pending is false
\* and, when a callback is set, exactly one decision was emitted for it.
TimeoutResolved ==
    /\ ran_timer # 0
    /\ resolved_by = "timeout"
    /\ ~vad_pending
    /\ on_decision # "None" => (emitted = 1 /\ Len(callbacks) = 1)

\* C17: bounded wait.  Under fair scheduling of the Timer threads, with
\* on_vad_start called at most MaxEpisodes times, whenever an episode is
\* pending, pending eventually becomes false: by on_stt_final, by
\* on_vad_cancel or, when neither is called, by a timeout firing that emits
\* exactly one decision through on_decision.  No episode stays pending
\* forever.
C17_BoundedWait ==
    vad_pending ~>
        /\ ~vad_pending
        /\ resolved_by \in { "final", "cancelled" } \/ TimeoutResolved

\* C17, witnessed: the Timer of the current episode fired while it was
\* pending, and its one decision went to the callback.
C17_Witness ==
    /\ TimeoutResolved
    /\ ran_timer = episode
    /\ on_decision # "None"
    /\ Len(callbacks) = 1
    /\ emitted = 1

\* C18: on_stt_partial with a non-empty text replaces the buffer by the
\* trimmed text, whatever the buffer held (last write wins); it emits and
\* returns nothing and leaves pending, the Timer and speaking as they were.
\* A timeout that emits then decides on the buffer, which is the most
\* recent partial, and on speaking as it is at the firing.
C18_PartialOverwrites ==
    [][ /\ \A text \in Texts \ { << >> } :
              on_stt_partial(text) =>
                  /\ stt_buffer' = Strip(text)
                  /\ callbacks' = << >>
                  /\ returned' = "None"
                  /\ UNCHANGED << vad_pending, timer, timers, is_speaking >>
        /\ ran_timer' # 0 /\ callbacks' # << >> =>
              /\ callbacks'[1].stt_text = stt_buffer
              /\ callbacks'[1].decision =
                     Expected(norm_tokens(stt_buffer), is_speaking) ]_vars

\* C18, witnessed: a partial is buffered in a pending episode whose Timer
\* is still armed, and nothing was emitted.
C18_Witness ==
    /\ vad_pending
    /\ stt_buffer # << >>
    /\ timer = episode
    /\ timers[episode] = "armed"
    /\ emitted = 0
    /\ callbacks = << >>
    /\ returned = "None"

\* C19: the Timer bookkeeping: at most one Timer is armed (started, not
\* cancelled, its wait not yet elapsed), and an armed Timer is the one
\* self._timer refers to, so that the next _cancel_timer cancels it.
C19_OneArmedTimerHeld ==
    /\ Cardinality({ k \in Episodes : timers[k] = "armed" }) <= 1
    /\ \A k \in Episodes : timers[k] = "armed" => timer = k

\* C20: on_decision runs while self._lock is held.  Each invocation is made
\* in the step that resolved, alone, and sees the resolved state (pending
\* false): nothing interleaves between the state change and its callback.
\* An on_decision that calls an operation of the filter never returns: the
\* operation that invoked it returns nothing and keeps the lock, and from
\* then on the lock stays held, no operation and no timeout handler takes
\* effect and no further decision is emitted; Timer threads can only queue.
C20_CallbackUnderLock ==
    [][ /\ callbacks' # << >> =>
              /\ Len(callbacks') = 1
              /\ ~callbacks'[1].pending
              /\ ~vad_pending'
              /\ lock = "free"
        /\ (callbacks' # << >> /\ on_decision = "reenters") =>
              (lock' = "held" /\ returned' = "None")
        /\ (lock = "free" /\ lock' = "held") =>
              (callbacks' # << >> /\ on_decision = "reenters")
        /\ lock = "held" =>
              /\ lock' = "held"
              /\ callbacks' = << >>
              /\ ran_timer' = 0
              /\ \E k \in Episodes : timer_expires(k)
              /\ UNCHANGED << fields, episode, emitted, resolved_by >> ]_vars

\* C20, witnessed: a callback that called back into the filter holds the
\* lock, and a Timer whose wait has elapsed is queued behind it.
C20_Witness ==
    /\ lock = "held"
    /\ on_decision = "reenters"
    /\ emitted = 1
    /\ ~vad_pending
    /\ \E k \in Episodes : timers[k] = "expired"

=============================================================================
